---- MODULE Spec2Model ----
(***************************************************************************)
(* Model of crictl's "ls" listing pipeline (cmd/crictl/list.go,            *)
(* hcListContainers): filter construction, the ListContainers RPC, the     *)
(* storage configuration reload, the per-container correlation loop and    *)
(* the three renderers.                                                    *)
(*                                                                         *)
(* Text that the code inspects character by character (the --state value,  *)
(* container ids, names and name patterns) is a sequence of one-character  *)
(* strings; text that is only compared for equality is a TLA+ string.      *)
(***************************************************************************)
EXTENDS Integers, Sequences, FiniteSets, TLC

VARIABLES opts, pc, st, filter, sent, r, err, storageOpts, idx, result, reads, stdout,
          configFile, environ, pids

\* configFile is what reading and decoding /etc/containers/storage.conf gives
\* and environ the process environment; pids is the state of the "pids"
\* command (pidListContainers) run on the same inputs.
vars == <<opts, pc, st, filter, sent, r, err, storageOpts, idx, result, reads, stdout,
          configFile, environ, pids>>

(***************************************************************************)
(* Bounds of the model.                                                    *)
(***************************************************************************)
\* Largest number of container summaries in one ListContainers response.
MaxContainers == 2

(***************************************************************************)
(* Text helpers.                                                           *)
(***************************************************************************)
Upper == <<"A","B","C","D","E","F","G","H","I","J","K","L","M",
           "N","O","P","Q","R","S","T","U","V","W","X","Y","Z">>
Lower == <<"a","b","c","d","e","f","g","h","i","j","k","l","m",
           "n","o","p","q","r","s","t","u","v","w","x","y","z">>

ToLowerChar(c) ==
  IF \E k \in DOMAIN Upper : Upper[k] = c
  THEN Lower[CHOOSE k \in DOMAIN Upper : Upper[k] = c]
  ELSE c

\* strings.ToLower
ToLower(s) == [k \in DOMAIN s |-> ToLowerChar(s[k])]

\* regexp.MatchString for a pattern without metacharacters: the pattern
\* occurs somewhere in the target.
MatchString(pattern, target) ==
  \E k \in 0..(Len(target) - Len(pattern)) :
     SubSeq(target, k + 1, k + Len(pattern)) = pattern

\* matchesRegex: the empty pattern accepts every name.
matchesRegex(pattern, target) ==
  IF pattern = <<>> THEN TRUE ELSE MatchString(pattern, target)

\* Length of the identifier prefix that getTruncatedID keeps.
truncatedIDLen == 13

\* strings.TrimPrefix
TrimPrefix(s, prefix) ==
  IF Len(prefix) <= Len(s) /\ SubSeq(s, 1, Len(prefix)) = prefix
  THEN SubSeq(s, Len(prefix) + 1, Len(s))
  ELSE s

\* getTruncatedID: a fixed-length prefix of the identifier.
getTruncatedID(id, prefix) ==
  LET t == TrimPrefix(id, prefix)
  IN  IF Len(t) > truncatedIDLen THEN SubSeq(t, 1, truncatedIDLen) ELSE t

\* convertContainerState: the display label of a lifecycle state.
convertContainerState(state) ==
  CASE state = "CONTAINER_CREATED" -> "created"
    [] state = "CONTAINER_RUNNING" -> "running"
    [] state = "CONTAINER_EXITED"  -> "exited"
    [] state = "CONTAINER_UNKNOWN" -> "unknown"
    [] OTHER -> "unknown"

(***************************************************************************)
(* gjson: the result of a path lookup and its String() conversion.         *)
(***************************************************************************)
\* A path that does not exist in the document.
NoResult == [Type |-> "Null", Raw |-> "", Str |-> ""]

\* gjson.Get(document, path): the value stored under the path, or the Null
\* result when the path is absent.
gjsonGet(doc, path) == IF path \in DOMAIN doc THEN doc[path] ELSE NoResult

\* Variant: every value that is not a string or a number converts to "".
gjsonString_StrictTypes(res) ==
  CASE res.Type = "String" -> res.Str
    [] res.Type = "Number" -> res.Raw
    [] OTHER -> ""

\* gjson.Result.String(): a string is its text, a number and an object or
\* array are their raw JSON text, a boolean is "true" or "false", and null
\* or a missing value is the empty string.
gjsonString(res) ==
  CASE res.Type = "String" -> res.Str
    [] res.Type = "Number" -> res.Raw
    [] res.Type = "JSON"   -> res.Raw
    [] res.Type = "True"   -> "true"
    [] res.Type = "False"  -> "false"
    [] OTHER -> ""

(***************************************************************************)
(* Filter construction (hcListContainers, first part).                     *)
(***************************************************************************)
\* The zero value of pb.ContainerState.
ZeroState == "CONTAINER_CREATED"

created == <<"c","r","e","a","t","e","d">>
running == <<"r","u","n","n","i","n","g">>
exited  == <<"e","x","i","t","e","d">>
unknown == <<"u","n","k","n","o","w","n">>

\* Variant: the RUNNING default is installed whatever --all says.
FilterFromAll_AlwaysRunning(all) ==
  [st |-> [State |-> "CONTAINER_RUNNING"], filter |-> [State |-> "st"]]

\* filter := &pb.ContainerFilter{}; st := &pb.ContainerStateValue{};
\* if !opts.all { st.State = RUNNING; filter.State = st }
\* filter.State is a pointer: "nil", or "st" when it points at st.
FilterFromAll(all) ==
  IF ~all
  THEN [st |-> [State |-> "CONTAINER_RUNNING"], filter |-> [State |-> "st"]]
  ELSE [st |-> [State |-> ZeroState],           filter |-> [State |-> "nil"]]

\* Variant: a state constraint already installed by the --all default is kept
\* and the explicit --state only fills an absent one.
FilterFromState_KeepDefault(f, state) ==
  IF state = <<>>
  THEN [st |-> f.st, filter |-> f.filter, fatal |-> FALSE]
  ELSE LET low == ToLower(state)
           keep == f.filter.State = "st"
           pick(e) == [st |-> IF keep THEN f.st ELSE [State |-> e],
                       filter |-> [State |-> "st"], fatal |-> FALSE]
       IN  CASE low = created -> pick("CONTAINER_CREATED")
             [] low = running -> pick("CONTAINER_RUNNING")
             [] low = exited  -> pick("CONTAINER_EXITED")
             [] low = unknown -> pick("CONTAINER_UNKNOWN")
             [] OTHER ->
                  [st |-> [State |-> "CONTAINER_UNKNOWN"], filter |-> f.filter, fatal |-> TRUE]

\* Variant: the default branch of the switch does not end the process.
FilterFromState_NoFatal(f, state) ==
  IF state = <<>>
  THEN [st |-> f.st, filter |-> f.filter, fatal |-> FALSE]
  ELSE LET low == ToLower(state)
           pick(e) == [st |-> [State |-> e], filter |-> [State |-> "st"], fatal |-> FALSE]
       IN  CASE low = created -> pick("CONTAINER_CREATED")
             [] low = running -> pick("CONTAINER_RUNNING")
             [] low = exited  -> pick("CONTAINER_EXITED")
             [] low = unknown -> pick("CONTAINER_UNKNOWN")
             [] OTHER ->
                  [st |-> [State |-> "CONTAINER_UNKNOWN"], filter |-> f.filter, fatal |-> FALSE]

\* if opts.state != "" { st.State = UNKNOWN; switch strings.ToLower(opts.state) ... }
\* fatal is TRUE when the default branch (log.Fatalf) is taken.
FilterFromState(f, state) ==
  IF state = <<>>
  THEN [st |-> f.st, filter |-> f.filter, fatal |-> FALSE]
  ELSE LET low == ToLower(state)
       IN  CASE low = created ->
                  [st |-> [State |-> "CONTAINER_CREATED"], filter |-> [State |-> "st"], fatal |-> FALSE]
             [] low = running ->
                  [st |-> [State |-> "CONTAINER_RUNNING"], filter |-> [State |-> "st"], fatal |-> FALSE]
             [] low = exited ->
                  [st |-> [State |-> "CONTAINER_EXITED"], filter |-> [State |-> "st"], fatal |-> FALSE]
             [] low = unknown ->
                  [st |-> [State |-> "CONTAINER_UNKNOWN"], filter |-> [State |-> "st"], fatal |-> FALSE]
             [] OTHER ->
                  [st |-> [State |-> "CONTAINER_UNKNOWN"], filter |-> f.filter, fatal |-> TRUE]

\* request := &pb.ListContainersRequest{Filter: filter}: the filter as it goes
\* on the wire, the pointer followed. State is "none" when there is no state
\* constraint.
Request(stv, flt) ==
  [Filter |-> [State |-> IF flt.State = "nil" THEN "none" ELSE stv.State]]

(***************************************************************************)
(* Storage configuration (lib.go).                                         *)
(***************************************************************************)
STORAGEROOT == "/etc/containers/storage.conf"

\* StoreOptions{}
EmptyStoreOptions ==
  [RunRoot |-> "", GraphRoot |-> "", GraphDriverName |-> "",
   GraphDriverOptions |-> <<>>, UIDMap |-> <<>>, GIDMap |-> <<>>]

\* The string options of [storage.options.thinpool], in the order the loader
\* looks at them, each with the text put before the value; drv is TRUE where
\* the text is prefixed by the configured driver name instead of "dm".
ThinpoolTable ==
  << [field |-> "AutoExtendPercent",    key |-> "dm.thinp_autoextend_percent=",   drv |-> FALSE],
     [field |-> "AutoExtendThreshold",  key |-> "dm.thinp_autoextend_threshold=", drv |-> FALSE],
     [field |-> "BaseSize",             key |-> "dm.basesize=",                   drv |-> FALSE],
     [field |-> "BlockSize",            key |-> "dm.blocksize=",                  drv |-> FALSE],
     [field |-> "DirectLvmDevice",      key |-> "dm.directlvm_device=",           drv |-> FALSE],
     [field |-> "DirectLvmDeviceForce", key |-> "dm.directlvm_device_force=",     drv |-> FALSE],
     [field |-> "Fs",                   key |-> "dm.fs=",                         drv |-> FALSE],
     [field |-> "LogLevel",             key |-> "dm.libdm_log_level=",            drv |-> FALSE],
     [field |-> "MinFreeSpace",         key |-> "dm.min_free_space=",             drv |-> FALSE],
     [field |-> "MkfsArg",              key |-> "dm.mkfsarg=",                    drv |-> FALSE],
     [field |-> "MountOpt",             key |-> ".mountopt=",                     drv |-> TRUE],
     [field |-> "UseDeferredDeletion",  key |-> "dm.use_deferred_deletion=",      drv |-> FALSE],
     [field |-> "UseDeferredRemoval",   key |-> "dm.use_deferred_removal=",       drv |-> FALSE],
     [field |-> "XfsNoSpaceMaxRetries", key |-> "dm.xfs_nospace_max_retries=",    drv |-> FALSE] >>

\* The string options of [storage.options] looked at after the additional
\* image stores, all prefixed by the configured driver name.
OptionsTable ==
  << [field |-> "Size",              key |-> ".size=",                drv |-> TRUE],
     [field |-> "OstreeRepo",        key |-> ".ostree_repo=",         drv |-> TRUE],
     [field |-> "SkipMountHome",     key |-> ".skip_mount_home=",     drv |-> TRUE],
     [field |-> "MountProgram",      key |-> ".mount_program=",       drv |-> TRUE],
     [field |-> "IgnoreChownErrors", key |-> ".ignore_chown_errors=", drv |-> TRUE],
     [field |-> "MountOpt",          key |-> ".mountopt=",            drv |-> TRUE] >>

\* A field the TOML document does not set decodes to the empty string.
Field(tbl, name) == IF name \in DOMAIN tbl THEN tbl[name] ELSE ""

\* The run of `if value != "" { options = append(options, Sprintf(...)) }`
\* statements over one table.
RECURSIVE AppendOptions(_, _, _, _, _)
AppendOptions(options, table, values, driver, k) ==
  IF k > Len(table) THEN options
  ELSE LET e == table[k]
           v == Field(values, e.field)
       IN  AppendOptions(
             IF v # ""
             THEN Append(options, (IF e.drv THEN driver \o e.key ELSE e.key) \o v)
             ELSE options,
             table, values, driver, k + 1)

\* for _, s := range AdditionalImageStores { append "<driver>.imagestore=<s>" }
RECURSIVE AppendImageStores(_, _, _, _)
AppendImageStores(options, stores, driver, k) ==
  IF k > Len(stores) THEN options
  ELSE AppendImageStores(Append(options, driver \o ".imagestore=" \o stores[k]),
                         stores, driver, k + 1)

\* idtools.ParseIDMap on one specification, given as the list of its numeric
\* fields: an error unless the fields come in triples.
RECURSIVE Triples(_, _)
Triples(fields, k) ==
  IF k + 2 > Len(fields) THEN <<>>
  ELSE <<[ContainerID |-> fields[k], HostID |-> fields[k + 1], Size |-> fields[k + 2]]>>
       \o Triples(fields, k + 3)

ParseIDMap(fields) ==
  IF Len(fields) % 3 # 0 THEN [err |-> TRUE, map |-> <<>>]
  ELSE [err |-> FALSE, map |-> Triples(fields, 1)]

\* idtools.NewIDMappings: fails unless both names have subordinate id ranges
\* on this host (known lists the names that do).
NewIDMappings(user, group, known) ==
  IF user \in known /\ group \in known
  THEN [err |-> FALSE,
        uids |-> <<[ContainerID |-> 0, HostID |-> user, Size |-> 65536]>>,
        gids |-> <<[ContainerID |-> 0, HostID |-> group, Size |-> 65536]>>]
  ELSE [err |-> TRUE, uids |-> <<>>, gids |-> <<>>]

\* strings.Split(s, sep) for a text given as the sequence of its pieces, each
\* piece either the separator or a run of other characters: the texts
\* between the separators, empty ones included.
RECURSIVE SplitFrom(_, _, _, _, _)
SplitFrom(tokens, sep, k, cur, acc) ==
  IF k > Len(tokens) THEN Append(acc, cur)
  ELSE IF tokens[k] = sep THEN SplitFrom(tokens, sep, k + 1, "", Append(acc, cur))
  ELSE SplitFrom(tokens, sep, k + 1, cur \o tokens[k], acc)

Split(tokens, sep) == SplitFrom(tokens, sep, 1, "", <<>>)

\* Variant: STORAGE_DRIVER is not looked at.
ApplyEnv_OptsOnly(so, env) ==
  IF env.STORAGE_OPTS # <<>>
  THEN [so EXCEPT !.GraphDriverOptions = @ \o Split(env.STORAGE_OPTS, ",")] ELSE so

\* The two environment overrides at the end of ReloadConfigurationFile.
\* STORAGE_OPTS is the sequence of its pieces (<<>> when unset or empty).
ApplyEnv(so, env) ==
  LET so7 == IF env.STORAGE_DRIVER # ""
             THEN [so EXCEPT !.GraphDriverName = env.STORAGE_DRIVER] ELSE so
  IN  IF env.STORAGE_OPTS # <<>>
      THEN [so7 EXCEPT !.GraphDriverOptions = @ \o Split(env.STORAGE_OPTS, ",")] ELSE so7

\* ReloadConfigurationFile(configFile, storeOptions). file is what reading and
\* decoding configFile gives: [kind |-> "notexist"], [kind |-> "unreadable"],
\* [kind |-> "unparsable"] or [kind |-> "ok", storage |-> ...]. env holds the
\* environment (STORAGE_DRIVER, STORAGE_OPTS) and the names known to the
\* host's subordinate id files. The result is the updated options and the
\* lines printed.
ReloadConfigurationFile(file, env, storeOptions) ==
  IF file.kind = "unreadable"
  THEN [so |-> storeOptions, out |-> <<"Failed to read " \o STORAGEROOT>>]
  ELSE IF file.kind = "unparsable"
  THEN [so |-> storeOptions, out |-> <<"Failed to parse " \o STORAGEROOT>>]
  ELSE
    LET cfg == IF file.kind = "ok" THEN file.storage ELSE [x \in {} |-> ""]
        driver == Field(cfg, "Driver")
        so1 == [storeOptions EXCEPT
                  !.GraphDriverName = IF driver # "" THEN driver ELSE @,
                  !.RunRoot   = IF Field(cfg, "RunRoot") # "" THEN Field(cfg, "RunRoot") ELSE @,
                  !.GraphRoot = IF Field(cfg, "GraphRoot") # "" THEN Field(cfg, "GraphRoot") ELSE @]
        thin == IF "Thinpool" \in DOMAIN cfg THEN cfg.Thinpool ELSE [x \in {} |-> ""]
        stores == IF "AdditionalImageStores" \in DOMAIN cfg
                  THEN cfg.AdditionalImageStores ELSE <<>>
        o1 == AppendOptions(so1.GraphDriverOptions, ThinpoolTable, thin, driver, 1)
        o2 == AppendImageStores(o1, stores, driver, 1)
        o3 == AppendOptions(o2, OptionsTable, cfg, driver, 1)
        ru0 == Field(cfg, "RemapUser")
        rg0 == Field(cfg, "RemapGroup")
        rg1 == IF ru0 # "" /\ rg0 = "" THEN ru0 ELSE rg0
        ru1 == IF rg1 # "" /\ ru0 = "" THEN rg1 ELSE ru0
        remap == ru1 # "" /\ rg1 # ""
        m == NewIDMappings(ru1, rg1, env.known)
        so3 == [so1 EXCEPT !.GraphDriverOptions = o3]
    IN
    IF remap /\ m.err
    THEN [so |-> so3, out |-> <<"Error initializing ID mappings">>]
    ELSE
      LET so4 == IF remap THEN [so3 EXCEPT !.UIDMap = m.uids, !.GIDMap = m.gids] ELSE so3
          uidmap == ParseIDMap(IF "RemapUIDs" \in DOMAIN cfg THEN cfg.RemapUIDs ELSE <<>>)
          gidmap == ParseIDMap(IF "RemapGIDs" \in DOMAIN cfg THEN cfg.RemapGIDs ELSE <<>>)
          so5 == IF uidmap.err THEN so4 ELSE [so4 EXCEPT !.UIDMap = @ \o uidmap.map]
          so6 == IF gidmap.err THEN so5 ELSE [so5 EXCEPT !.GIDMap = @ \o gidmap.map]
          so8 == ApplyEnv(so6, env)
          so9 == IF Len(so8.GraphDriverOptions) = 1 /\ so8.GraphDriverOptions[1] = ""
                 THEN [so8 EXCEPT !.GraphDriverOptions = <<>>] ELSE so8
      IN  [so |-> so9,
           out |-> (IF uidmap.err THEN <<"remap-uids">> ELSE <<>>)
                   \o (IF gidmap.err THEN <<"remap-gids">> ELSE <<>>)]

\* root := filepath.Join(GraphRoot, GraphDriverName+"-containers"): Join drops
\* empty elements.
Root(so) ==
  SelectSeq(<<so.GraphRoot, so.GraphDriverName \o "-containers">>, LAMBDA e : e # "")

\* filepath.Join(root, id, "userdata", name)
FilePath(root, id, name) == [root |-> root, id |-> id, dir |-> "userdata", file |-> name]

(***************************************************************************)
(* The correlation loop and the renderers (hcListContainers, second part). *)
(***************************************************************************)
NoErr == [kind |-> "nil", value |-> ""]

RootPathKey == "root.path"
PidKey      == "pid"
IPKey       == "annotations.io\\.kubernetes\\.cri-o\\.IP"

\* ctm := units.HumanDuration(now - createdAt) + " ago"
HumanAge(now, createdAt) == [duration |-> now - createdAt, suffix |-> " ago"]

\* id := c.Id; if !opts.noTrunc { id = getTruncatedID(id, "") }
RecordId(id, noTrunc) == IF ~noTrunc THEN getTruncatedID(id, <<>>) ELSE id

\* message := hcListMessage{...}
Message(c, now, noTrunc, mountPoint, pid, IP) ==
  [ContainerId |-> RecordId(c.Id, noTrunc),
   CTM         |-> HumanAge(now, c.CreatedAt),
   State       |-> convertContainerState(c.State),
   Name        |-> c.Metadata.Name,
   PID         |-> pid,
   IP          |-> IP,
   MountPoint  |-> mountPoint]

\* Variant: a matching record is appended but the loop goes on.
PidFilter_NoBreak(optPid, pid) ==
  IF optPid # ""
  THEN IF optPid = pid THEN [append |-> TRUE,  next |-> "continue"]
                       ELSE [append |-> FALSE, next |-> "continue"]
  ELSE [append |-> TRUE, next |-> "continue"]

\* The pid filter at the end of the loop body: what happens to the assembled
\* message and to the loop.
PidFilter(optPid, pid) ==
  IF optPid # ""
  THEN IF optPid = pid THEN [append |-> TRUE,  next |-> "break"]
                       ELSE [append |-> FALSE, next |-> "continue"]
  ELSE [append |-> TRUE, next |-> "continue"]

\* Variant: the message is put in front of the list.
AppendMessage_Prepend(containers, message) == <<message>> \o containers

\* result.Containers = append(result.Containers, message)
AppendMessage(containers, message) == Append(containers, message)

\* One pass through the body of `for _, c := range r.Containers`. cfgRead and
\* stRead are what ioutil.ReadFile gives for the two files, should the body get
\* to read them. The result names how the pass ends ("continue", "break" or
\* "return"), the error returned, the reads performed, the lines printed and
\* the container list afterwards.
LoopBody(o, c, root, now, cfgRead, stRead, containers) ==
  LET configRoot == FilePath(root, c.Id, "config.json")
      stateRoot  == FilePath(root, c.Id, "state.json")
      rd1 == [path |-> configRoot, res |-> cfgRead]
      rd2 == [path |-> stateRoot,  res |-> stRead]
  IN
  IF ~matchesRegex(o.nameRegexp, c.Metadata.Name)
  THEN [next |-> "continue", err |-> NoErr, reads |-> <<>>, out |-> <<>>,
        containers |-> containers]
  ELSE IF cfgRead.err # "nil"
  THEN [next |-> "return", err |-> [kind |-> "read", value |-> cfgRead.err],
        reads |-> <<rd1>>, out |-> <<>>, containers |-> containers]
  ELSE IF stRead.err # "nil"
  THEN [next |-> "return", err |-> [kind |-> "read", value |-> stRead.err],
        reads |-> <<rd1, rd2>>, out |-> <<>>, containers |-> containers]
  ELSE
    LET mountPoint == gjsonString(gjsonGet(cfgRead.doc, RootPathKey))
        pid        == gjsonString(gjsonGet(stRead.doc, PidKey))
        IP         == gjsonString(gjsonGet(stRead.doc, IPKey))
        message    == Message(c, now, o.noTrunc, mountPoint, pid, IP)
        pf         == PidFilter(o.pid, pid)
    IN  [next |-> pf.next, err |-> NoErr, reads |-> <<rd1, rd2>>,
         \* fmt.Println(opts.noTrunc)
         out |-> <<[kind |-> "line", text |-> IF o.noTrunc THEN "true" ELSE "false",
                    rows |-> <<>>]>>,
         containers |-> IF pf.append THEN AppendMessage(containers, message)
                        ELSE containers]

\* The identifier the table renderer puts in a row.
TableId(containerId) == getTruncatedID(containerId, <<>>)

\* outputAsTable: the rows after the header.
TableRows(containers) ==
  [k \in DOMAIN containers |->
     [containers[k] EXCEPT !.ContainerId = TableId(containers[k].ContainerId)]]

\* switch opts.output { ... }: the error returned and what is printed.
Output(output, res) ==
  CASE output = "json" ->
         [err |-> NoErr, out |-> <<[kind |-> "json", text |-> "", rows |-> res.Containers]>>]
    [] output = "yaml" ->
         [err |-> NoErr, out |-> <<[kind |-> "yaml", text |-> "", rows |-> res.Containers]>>]
    [] output \in {"table", ""} ->
         [err |-> NoErr,
          out |-> <<[kind |-> "table", text |-> "", rows |-> TableRows(res.Containers)]>>]
    [] OTHER ->
         [err |-> [kind |-> "unsupported output format", value |-> output], out |-> <<>>]

\* Variant: the error of the call is not looked at.
RpcContinues_IgnoreError(rpcErr) == TRUE

\* r, err := client.ListContainers(...); if err != nil { return err }
\* TRUE when the function goes on after the call.
RpcContinues(rpcErr) == rpcErr.kind = "nil"

(***************************************************************************)
(* Inputs.                                                                 *)
(***************************************************************************)
ShortId == <<"c","0","f","f","e","e">>
LongId  == <<"0","1","2","3","4","5","6","7","8","9","a","b","c","d","e","f">>
Ids == {ShortId, LongId}

Web == <<"w","e","b">>
Db  == <<"d","b">>
Names == {Web, Db}

\* Name patterns: none, one that matches Web only, one that matches no name.
Patterns == {<<>>, <<"w","e">>, <<"z">>}

Bogus == <<"b","o","g","u","s">>

\* --state values: unset, the four states in various cases, and invalid ones.
StateOptions ==
  {<<>>, created, <<"R","U","N","N","I","N","G">>, <<"E","x","i","t","e","d">>,
   unknown, Bogus, <<"r","u","n">>}

Now == 100

\* The summaries a response is made of: both ids, both names and two states.
Summary(id, name, state) ==
  [Id |-> id, Metadata |-> [Name |-> name], State |-> state, CreatedAt |-> 40]

Summaries ==
  {Summary(ShortId, Web, "CONTAINER_RUNNING"), Summary(LongId, Web, "CONTAINER_EXITED"),
   Summary(ShortId, Db, "CONTAINER_EXITED"),   Summary(LongId, Db, "CONTAINER_RUNNING")}

Responses == UNION {[1..n -> Summaries] : n \in 0..MaxContainers}

RpcErrors == {[kind |-> "rpc", value |-> "Unavailable"],
              [kind |-> "rpc", value |-> "DeadlineExceeded"]}

Str(s)  == [Type |-> "String", Raw |-> s, Str |-> s]
Num(s)  == [Type |-> "Number", Raw |-> s, Str |-> ""]
Obj(s)  == [Type |-> "JSON",   Raw |-> s, Str |-> ""]
Bool    == [Type |-> "True",   Raw |-> "true", Str |-> ""]
EmptyDoc == [x \in {} |-> NoResult]

ReadError(e) == [err |-> e, doc |-> EmptyDoc]
ReadOk(d)    == [err |-> "nil", doc |-> d]

\* What the two ioutil.ReadFile calls of one pass can give (config.json,
\* state.json): either file unreadable, every field present, and each field
\* missing or of another JSON type than a string or a number.
ContainerFiles ==
  {[config |-> ReadError("ENOENT"), state |-> ReadError("ENOENT")],
   [config |-> ReadOk(RootPathKey :> Str("/mnt/c")), state |-> ReadError("EACCES")],
   [config |-> ReadOk(RootPathKey :> Str("/mnt/c")),
    state  |-> ReadOk((PidKey :> Num("7")) @@ (IPKey :> Str("10.0.0.7")))],
   [config |-> ReadOk(RootPathKey :> Str("/mnt/d")),
    state  |-> ReadOk((PidKey :> Num("8")) @@ (IPKey :> Str("10.0.0.8")))],
   [config |-> ReadOk(EmptyDoc),
    state  |-> ReadOk((PidKey :> Num("7")))],
   [config |-> ReadOk(RootPathKey :> Str("/mnt/e")),
    state  |-> ReadOk((IPKey :> Str("10.0.0.9")))],
   [config |-> ReadOk(RootPathKey :> Obj("{}")),
    state  |-> ReadOk((PidKey :> Bool) @@ (IPKey :> Obj("[]")))]}

\* What reading and decoding /etc/containers/storage.conf can give.
ConfigFiles ==
  {[kind |-> "notexist"],
   [kind |-> "ok",
    storage |-> [Driver |-> "overlay", GraphRoot |-> "/var/lib/containers/storage"]]}

Environments == {[STORAGE_DRIVER |-> "", STORAGE_OPTS |-> <<>>, known |-> {}]}

\* The configuration files and environments ReloadConfigurationFile is
\* exercised on by itself: a missing, an unreadable and an undecodable file,
\* and decoded files with and without options and remapping.
ReloadFiles ==
  ConfigFiles \cup
  {[kind |-> "unreadable"],
   [kind |-> "unparsable"],
   [kind |-> "ok", storage |-> [x \in {} |-> ""]],
   [kind |-> "ok",
    storage |-> [Driver |-> "devicemapper", RunRoot |-> "/run/containers",
                 Thinpool |-> [BaseSize |-> "10G", MountOpt |-> "nodev"],
                 AdditionalImageStores |-> <<"/mnt/ro">>, Size |-> "20G",
                 RemapUser |-> "containers"]],
   [kind |-> "ok",
    storage |-> [Driver |-> "overlay", MountOpt |-> "nodev",
                 RemapUser |-> "nosuchuser", RemapGroup |-> "containers"]],
   [kind |-> "ok",
    storage |-> [Driver |-> "overlay", RemapGroup |-> "nosuchgroup"]]}

ReloadEnvironments ==
  [STORAGE_DRIVER : {"", "vfs"},
   STORAGE_OPTS : {<<>>, <<"overlay.mountopt=nodev">>,
                   <<"overlay.size=1G", ",", "overlay.mountopt=nodev">>, <<",">>},
   known : {{"containers"}}]

\* Store options a caller can pass in.
StoreOptionsIn ==
  {EmptyStoreOptions,
   [EmptyStoreOptions EXCEPT !.GraphDriverName = "btrfs",
                             !.GraphDriverOptions = <<"btrfs.min_space=1G">>],
   [EmptyStoreOptions EXCEPT !.GraphDriverOptions = <<"">>]}

Outputs == {"", "table", "json", "yaml", "xml"}
Pids == {"", "7"}

(***************************************************************************)
(* The state machine.                                                      *)
(***************************************************************************)
\* The "pids" command before it is run.
PidsIdle ==
  [pc |-> "idle", st |-> [State |-> ZeroState], filter |-> [State |-> "nil"],
   sent |-> <<>>, err |-> NoErr, storageOpts |-> EmptyStoreOptions, idx |-> 0,
   rows |-> <<>>, reads |-> <<>>, stdout |-> <<>>]

InitLocals ==
  /\ pc = "filter"
  /\ st = [State |-> ZeroState]
  /\ filter = [State |-> "nil"]
  /\ sent = <<>>
  /\ r = [Containers |-> <<>>]
  /\ err = NoErr
  /\ storageOpts = EmptyStoreOptions
  /\ idx = 0
  /\ result = [Containers |-> <<>>]
  /\ reads = <<>>
  /\ stdout = <<>>
  /\ pids = PidsIdle

\* The listing pipeline: every option varies, --state between unset and one
\* invalid value.
Init ==
  /\ opts \in [all : BOOLEAN, state : {<<>>, Bogus}, pid : Pids, nameRegexp : Patterns,
               noTrunc : BOOLEAN, output : Outputs]
  /\ configFile \in ConfigFiles
  /\ environ \in Environments
  /\ InitLocals

\* The filter builder: --all and --state vary.
InitFilter ==
  /\ opts \in [all : BOOLEAN, state : StateOptions, pid : {""}, nameRegexp : {<<>>},
               noTrunc : {FALSE}, output : {"", "xml"}]
  /\ configFile \in ConfigFiles
  /\ environ \in Environments
  /\ InitLocals

LoopPc(k, n) == IF k <= n THEN "loop" ELSE "output"

\* Lines 99-123: build the filter; an invalid --state ends the process.
hcBuildFilter ==
  /\ pc = "filter"
  /\ LET f == FilterFromState(FilterFromAll(opts.all), opts.state)
     IN  /\ st' = f.st
         /\ filter' = f.filter
         /\ pc' = IF f.fatal THEN "fatal" ELSE "rpc"
  /\ UNCHANGED <<configFile, environ, pids, opts, sent, r, err, storageOpts, idx, result, reads, stdout>>

\* Lines 125-131: send the request; the runtime answers or the call fails.
\* sent logs each call: the request and the error the call returned.
hcCallRPC ==
  /\ pc = "rpc"
  /\ \E answer \in [err : {NoErr}, Containers : Responses]
                   \cup [err : RpcErrors, Containers : {<<>>}] :
       /\ sent' = Append(sent, [request |-> Request(st, filter), err |-> answer.err])
       /\ IF RpcContinues(answer.err)
          THEN /\ r' = [Containers |-> answer.Containers]
               /\ pc' = "reload"
               /\ err' = err
          ELSE /\ err' = answer.err
               /\ pc' = "done"
               /\ r' = r
  /\ UNCHANGED <<configFile, environ, pids, opts, st, filter, storageOpts, idx, result, reads, stdout>>

ConfPath == [root |-> <<>>, id |-> <<>>, dir |-> "", file |-> STORAGEROOT]

\* Printed lines as entries of stdout.
Lines(out) == [k \in DOMAIN out |-> [kind |-> "line", text |-> out[k], rows |-> <<>>]]

\* The read of the configuration file that ReloadConfigurationFile starts with.
ConfRead(file) ==
  [path |-> ConfPath,
   res |-> [err |-> IF file.kind \in {"ok", "unparsable"} THEN "nil" ELSE file.kind,
            doc |-> EmptyDoc]]

\* Lines 133-138: load the storage configuration and enter the loop.
hcReload ==
  /\ pc = "reload"
  /\ LET l == ReloadConfigurationFile(configFile, environ, EmptyStoreOptions)
     IN  /\ storageOpts' = l.so
         /\ stdout' = stdout \o Lines(l.out)
         /\ reads' = Append(reads, ConfRead(configFile))
  /\ idx' = 1
  /\ pc' = LoopPc(1, Len(r.Containers))
  /\ UNCHANGED <<configFile, environ, pids, opts, st, filter, sent, r, err, result>>

\* Lines 139-184: one pass through the loop body.
hcLoop ==
  /\ pc = "loop"
  /\ \E files \in ContainerFiles :
       LET b == LoopBody(opts, r.Containers[idx], Root(storageOpts), Now,
                         files.config, files.state, result.Containers)
       IN  /\ result' = [Containers |-> b.containers]
           /\ reads' = reads \o b.reads
           /\ stdout' = stdout \o b.out
           /\ err' = b.err
           /\ idx' = IF b.next = "continue" THEN idx + 1 ELSE idx
           /\ pc' = CASE b.next = "return" -> "done"
                      [] b.next = "break" -> "output"
                      [] OTHER -> LoopPc(idx + 1, Len(r.Containers))
  /\ UNCHANGED <<configFile, environ, pids, opts, st, filter, sent, r, storageOpts>>

\* Lines 186-195: render.
hcOutput ==
  /\ pc = "output"
  /\ LET o == Output(opts.output, result)
     IN  /\ err' = o.err
         /\ stdout' = stdout \o o.out
  /\ pc' = "done"
  /\ UNCHANGED <<configFile, environ, pids, opts, st, filter, sent, r, storageOpts, idx, result, reads>>

Next == hcBuildFilter \/ hcCallRPC \/ hcReload \/ hcLoop \/ hcOutput

Spec == Init /\ [][Next]_vars

SpecFilter == InitFilter /\ [][Next]_vars

(***************************************************************************)
(* The "pids" command, pidListContainers, run after "ls" on the same        *)
(* options, against the same runtime and the same storage: the call gets    *)
(* the answer "ls" got, and the n-th file read gets the result the n-th     *)
(* read of "ls" got; a read "ls" never made is drawn anew.                  *)
(***************************************************************************)
AnnotationsKey == "annotations"
IPSubKey       == "io.kubernetes.cri-o.IP"

\* gjson.Get(json, parent).Get(path): the value at path inside the value at
\* parent, which is the value at the joined path.
gjsonGetIn(doc, parent, path) == gjsonGet(doc, parent \o "." \o path)

\* The row display.AddRow is given for one container.
PidRow(c, now, mountPoint, pid, IP) ==
  [ContainerId |-> getTruncatedID(c.Id, <<>>),
   CTM         |-> HumanAge(now, c.CreatedAt),
   State       |-> convertContainerState(c.State),
   Name        |-> c.Metadata.Name,
   PID         |-> pid,
   IP          |-> IP,
   MountPoint  |-> mountPoint]

\* One pass through the body of `for _, c := range r.Containers` of
\* pidListContainers: opts.pid is not looked at, every container that passes
\* the name pattern and whose files are read gets a row.
PidLoopBody(o, c, root, now, cfgRead, stRead, rows) ==
  LET configRoot == FilePath(root, c.Id, "config.json")
      stateRoot  == FilePath(root, c.Id, "state.json")
      rd1 == [path |-> configRoot, res |-> cfgRead]
      rd2 == [path |-> stateRoot,  res |-> stRead]
  IN
  IF ~matchesRegex(o.nameRegexp, c.Metadata.Name)
  THEN [next |-> "continue", err |-> NoErr, reads |-> <<>>, rows |-> rows]
  ELSE IF cfgRead.err # "nil"
  THEN [next |-> "return", err |-> [kind |-> "read", value |-> cfgRead.err],
        reads |-> <<rd1>>, rows |-> rows]
  ELSE IF stRead.err # "nil"
  THEN [next |-> "return", err |-> [kind |-> "read", value |-> stRead.err],
        reads |-> <<rd1, rd2>>, rows |-> rows]
  ELSE
    LET mountPoint == gjsonString(gjsonGet(cfgRead.doc, RootPathKey))
        pid        == gjsonString(gjsonGet(stRead.doc, PidKey))
        IP         == gjsonString(gjsonGetIn(stRead.doc, AnnotationsKey, IPSubKey))
    IN  [next |-> "continue", err |-> NoErr, reads |-> <<rd1, rd2>>,
         rows |-> Append(rows, PidRow(c, now, mountPoint, pid, IP))]

\* switch opts.output { ... } right after the call: json and yaml print the
\* response as received and return, table goes on, anything else is an error.
PidFormat(output, resp) ==
  CASE output = "json" ->
         [next |-> "return", err |-> NoErr,
          out |-> <<[kind |-> "json", text |-> "", rows |-> resp.Containers]>>]
    [] output = "yaml" ->
         [next |-> "return", err |-> NoErr,
          out |-> <<[kind |-> "yaml", text |-> "", rows |-> resp.Containers]>>]
    [] output \in {"table", ""} ->
         [next |-> "continue", err |-> NoErr, out |-> <<>>]
    [] OTHER ->
         [next |-> "return", err |-> [kind |-> "unsupported output format", value |-> output],
          out |-> <<>>]

\* Lines 82-106: the same filter code as hcListContainers.
pidBuildFilter ==
  /\ pc \in {"done", "fatal"}
  /\ pids.pc = "idle"
  /\ LET f == FilterFromState(FilterFromAll(opts.all), opts.state)
     IN  pids' = [pids EXCEPT !.st = f.st, !.filter = f.filter,
                              !.pc = IF f.fatal THEN "fatal" ELSE "rpc"]
  /\ UNCHANGED <<configFile, environ, opts, pc, st, filter, sent, r, err, storageOpts, idx,
                 result, reads, stdout>>

\* Lines 108-114: send the request; the runtime answers as it answered "ls".
pidCallRPC ==
  /\ pids.pc = "rpc"
  /\ Len(sent) > 0
  /\ LET answer == sent[1].err
     IN  pids' = [pids EXCEPT
                    !.sent = Append(@, [request |-> Request(pids.st, pids.filter),
                                        err |-> answer]),
                    !.err = IF RpcContinues(answer) THEN @ ELSE answer,
                    !.pc = IF RpcContinues(answer) THEN "format" ELSE "done"]
  /\ UNCHANGED <<configFile, environ, opts, pc, st, filter, sent, r, err, storageOpts, idx,
                 result, reads, stdout>>

\* Lines 116-125: the output format is looked at before storage is.
pidFormat ==
  /\ pids.pc = "format"
  /\ LET f == PidFormat(opts.output, r)
     IN  pids' = [pids EXCEPT !.err = f.err, !.stdout = @ \o f.out,
                              !.pc = IF f.next = "return" THEN "done" ELSE "reload"]
  /\ UNCHANGED <<configFile, environ, opts, pc, st, filter, sent, r, err, storageOpts, idx,
                 result, reads, stdout>>

\* Lines 127-133: the header row, the storage configuration, the root.
pidReload ==
  /\ pids.pc = "reload"
  /\ LET l == ReloadConfigurationFile(configFile, environ, EmptyStoreOptions)
     IN  pids' = [pids EXCEPT !.storageOpts = l.so, !.stdout = @ \o Lines(l.out),
                              !.reads = Append(@, ConfRead(configFile)),
                              !.rows = <<>>, !.idx = 1,
                              !.pc = IF 1 <= Len(r.Containers) THEN "loop" ELSE "flush"]
  /\ UNCHANGED <<configFile, environ, opts, pc, st, filter, sent, r, err, storageOpts, idx,
                 result, reads, stdout>>

\* What the n-th read gives: what it gave "ls", or a fresh result.
Replay(n, fresh) == IF n <= Len(reads) THEN reads[n].res ELSE fresh

\* Lines 134-157: one pass through the loop body.
pidLoop ==
  /\ pids.pc = "loop"
  /\ \E files \in ContainerFiles :
       LET n == Len(pids.reads)
           b == PidLoopBody(opts, r.Containers[pids.idx], Root(pids.storageOpts), Now,
                            Replay(n + 1, files.config), Replay(n + 2, files.state),
                            pids.rows)
       IN  pids' = [pids EXCEPT
                      !.rows = b.rows, !.reads = @ \o b.reads, !.err = b.err,
                      !.idx = IF b.next = "continue" THEN @ + 1 ELSE @,
                      !.pc = IF b.next = "return" THEN "done"
                             ELSE IF pids.idx + 1 <= Len(r.Containers) THEN "loop"
                             ELSE "flush"]
  /\ UNCHANGED <<configFile, environ, opts, pc, st, filter, sent, r, err, storageOpts, idx,
                 result, reads, stdout>>

\* Lines 158-159: display.Flush() prints the rows.
pidFlush ==
  /\ pids.pc = "flush"
  /\ pids' = [pids EXCEPT
                !.stdout = Append(@, [kind |-> "table", text |-> "", rows |-> pids.rows]),
                !.pc = "done"]
  /\ UNCHANGED <<configFile, environ, opts, pc, st, filter, sent, r, err, storageOpts, idx,
                 result, reads, stdout>>

\* Both commands on the shared options: --no-trunc, which "pids" does not
\* have, is left unset.
InitEquiv ==
  /\ opts \in [all : BOOLEAN, state : {<<>>, Bogus}, pid : Pids, nameRegexp : Patterns,
               noTrunc : {FALSE}, output : Outputs]
  /\ configFile \in ConfigFiles
  /\ environ \in Environments
  /\ InitLocals

NextEquiv ==
  \/ hcBuildFilter \/ hcCallRPC \/ hcReload \/ hcLoop \/ hcOutput
  \/ pidBuildFilter \/ pidCallRPC \/ pidFormat \/ pidReload \/ pidLoop \/ pidFlush

SpecEquiv == InitEquiv /\ [][NextEquiv]_vars

\* ReloadConfigurationFile by itself: a caller passes store options in and
\* gets them back changed in place.
InitReload ==
  /\ opts = [all |-> FALSE, state |-> <<>>, pid |-> "", nameRegexp |-> <<>>,
             noTrunc |-> FALSE, output |-> ""]
  /\ configFile \in ReloadFiles
  /\ environ \in ReloadEnvironments
  /\ pc = "reloadcall"
  /\ st = [State |-> ZeroState]
  /\ filter = [State |-> "nil"]
  /\ sent = <<>>
  /\ r = [Containers |-> <<>>]
  /\ err = NoErr
  /\ storageOpts \in StoreOptionsIn
  /\ idx = 0
  /\ result = [Containers |-> <<>>]
  /\ reads = <<>>
  /\ stdout = <<>>
  /\ pids = PidsIdle

ReloadCall ==
  /\ pc = "reloadcall"
  /\ LET l == ReloadConfigurationFile(configFile, environ, storageOpts)
     IN  /\ storageOpts' = l.so
         /\ stdout' = stdout \o Lines(l.out)
         /\ reads' = Append(reads, ConfRead(configFile))
  /\ pc' = "reloadret"
  /\ UNCHANGED <<configFile, environ, pids, opts, st, filter, sent, r, err, idx, result>>

NextReload == ReloadCall

SpecReload == InitReload /\ [][NextReload]_vars

(***************************************************************************)
(* Properties.                                                             *)
(***************************************************************************)
ValidStateNames == {created, running, exited, unknown}

\* The --state value names one of the four states, whatever its case.
ValidState(state) == state # <<>> /\ ToLower(state) \in ValidStateNames

\* The request has been issued (the function is past the RPC call).
PastRPC == pc \in {"reload", "loop", "output", "done"}

\* The state constraint each of the four names stands for.
EnumOf(name) ==
  CASE name = created -> "CONTAINER_CREATED"
    [] name = running -> "CONTAINER_RUNNING"
    [] name = exited  -> "CONTAINER_EXITED"
    [] name = unknown -> "CONTAINER_UNKNOWN"

\* C1: with state = "", the one request sent carries the state constraint
\* RUNNING when all = false and no state constraint when all = true.
C1_DefaultFilter ==
  (opts.state = <<>> /\ PastRPC) =>
     /\ Len(sent) = 1
     /\ sent[1].request.Filter.State = IF opts.all THEN "none" ELSE "CONTAINER_RUNNING"

\* C1 witness: a listing with all = true and state = "" has sent its request.
C1_Witness ==
  /\ opts.state = <<>> /\ opts.all
  /\ pc = "done" /\ Len(sent) = 1 /\ sent[1].request.Filter.State = "none"

\* C2: with a state option that case-folds to one of the four names, the one
\* request sent carries exactly that state's enum, for both values of all.
C2_ExplicitStateReplaces ==
  (ValidState(opts.state) /\ pc # "filter") =>
     /\ pc # "fatal"
     /\ PastRPC =>
          /\ Len(sent) = 1
          /\ sent[1].request.Filter.State = EnumOf(ToLower(opts.state))

\* C2 witness: all = false (default RUNNING) and --state Exited: the request
\* sent asks for EXITED.
C2_Witness ==
  /\ ~opts.all /\ opts.state = <<"E","x","i","t","e","d">>
  /\ pc = "done" /\ Len(sent) = 1 /\ sent[1].request.Filter.State = "CONTAINER_EXITED"

\* C3: with a non-empty state option that does not case-fold to one of the
\* four names, the operation ends fatally in the filter builder: no request is
\* ever sent, no file read and nothing rendered.
C3_InvalidStateFatal ==
  (opts.state # <<>> /\ ~ValidState(opts.state)) =>
     /\ pc \in {"filter", "fatal"}
     /\ sent = <<>> /\ reads = <<>> /\ stdout = <<>> /\ result.Containers = <<>>

\* C3 witness: the process has ended on an invalid --state.
C3_Witness == pc = "fatal" /\ opts.state = Bogus /\ sent = <<>>

\* C7: when the ListContainers call fails, the operation is over with exactly
\* that error: the call was made once, the storage configuration was not
\* loaded, no file was read, nothing was printed and no record assembled.
C7_RpcFailureAborts ==
  (Len(sent) >= 1 /\ sent[1].err.kind # "nil") =>
     /\ pc = "done"
     /\ err = sent[1].err
     /\ Len(sent) = 1
     /\ storageOpts = EmptyStoreOptions
     /\ reads = <<>> /\ stdout = <<>> /\ result.Containers = <<>>

\* C7 witness: a listing ended by a failed call.
C7_Witness ==
  pc = "done" /\ Len(sent) = 1 /\ sent[1].err.value = "DeadlineExceeded" /\ err.kind = "rpc"

(***************************************************************************)
(* Helpers of the listing properties.                                      *)
(***************************************************************************)
\* The positions of stdout that hold a rendering (not a plain line).
Renderings == {k \in DOMAIN stdout : stdout[k].kind # "line"}

\* The reads of container files (not of the storage configuration).
IsContainerRead(e) == e.path.file \in {"config.json", "state.json"}
IsStateReadOk(e) == e.path.file = "state.json" /\ e.res.err = "nil"

\* The text of a JSON value: absent or null is empty, a string is itself, a
\* number, object or array is its JSON text, a boolean is its literal.
Text(doc, key) ==
  IF key \notin DOMAIN doc THEN ""
  ELSE LET v == doc[key]
       IN  CASE v.Type = "String" -> v.Str
             [] v.Type \in {"Number", "JSON"} -> v.Raw
             [] v.Type = "True" -> "true"
             [] v.Type = "False" -> "false"
             [] OTHER -> ""

IsPrefix(p, s) == Len(p) <= Len(s) /\ SubSeq(s, 1, Len(p)) = p

\* The row (or record) is about the summary: same name, and an identifier
\* that is the summary's or a prefix of it.
RowOf(row, c) == row.Name = c.Metadata.Name /\ IsPrefix(row.ContainerId, c.Id)

\* The ways rows can be laid over the response in increasing positions.
Embeddings(rows, resp) ==
  {f \in [DOMAIN rows -> DOMAIN resp] :
     /\ \A j, k \in DOMAIN rows : j < k => f[j] < f[k]
     /\ \A k \in DOMAIN rows : RowOf(rows[k], resp[f[k]])}

PassesName(c) == opts.nameRegexp = <<>> \/ MatchString(opts.nameRegexp, c.Metadata.Name)

\* How many of the first n summaries pass the name filter.
NamePassing(n) == Cardinality({j \in 1..n : j <= Len(r.Containers) /\ PassesName(r.Containers[j])})

\* C4: with a non-empty pid option at most one record is kept and rendered;
\* a kept record has the requested pid, is about the summary the loop stopped
\* at, every summary evaluated before it had another pid, and its state.json
\* is the last file read: nothing after the first match is evaluated.
C4_PidFirstMatch ==
  opts.pid # "" =>
    /\ Len(result.Containers) <= 1
    /\ \A k \in Renderings :
         /\ Len(stdout[k].rows) <= 1
         /\ \A j \in DOMAIN stdout[k].rows : stdout[k].rows[j].PID = opts.pid
    /\ Len(result.Containers) = 1 =>
         LET rec == result.Containers[1]
             c   == r.Containers[idx]
             n   == Len(reads)
         IN  /\ pc \in {"output", "done"}
             /\ idx \in DOMAIN r.Containers
             /\ rec.PID = opts.pid
             /\ RowOf(rec, c) /\ PassesName(c)
             /\ n = 1 + 2 * NamePassing(idx)
             /\ IsStateReadOk(reads[n]) /\ reads[n].path.id = c.Id
             /\ Text(reads[n].res.doc, PidKey) = opts.pid
             /\ \A k \in 1..(n - 1) :
                  IsStateReadOk(reads[k]) => Text(reads[k].res.doc, PidKey) # opts.pid

\* C4 witness: the first of two summaries matched the pid; the second, which
\* passes the name filter too, was never read, and one row was rendered.
C4_Witness ==
  /\ opts.pid = "7" /\ opts.nameRegexp = <<>> /\ pc = "done"
  /\ Len(r.Containers) = 2 /\ idx = 1 /\ Len(reads) = 3
  /\ \E k \in Renderings : Len(stdout[k].rows) = 1

\* C5 (as stated): every rendering, in each format, shows for each record the
\* truncated identifier when noTrunc is false and the full identifier of its
\* summary when noTrunc is true.
C5_SameIdentifierAllFormats ==
  \A k \in Renderings :
    \E f \in Embeddings(stdout[k].rows, r.Containers) :
      \A j \in DOMAIN stdout[k].rows :
        stdout[k].rows[j].ContainerId =
          IF opts.noTrunc THEN r.Containers[f[j]].Id
          ELSE getTruncatedID(r.Containers[f[j]].Id, <<>>)

\* C6 (as stated): with an unsupported output option and an answered call the
\* operation ends with the error naming the value and nothing on its output.
C6_UnsupportedOutputSilent ==
  (/\ opts.output \notin {"json", "yaml", "table", ""}
   /\ pc = "done" /\ Len(sent) = 1 /\ sent[1].err.kind = "nil") =>
     /\ err = [kind |-> "unsupported output format", value |-> opts.output]
     /\ stdout = <<>>

\* C8 (as stated): when a container file cannot be read the operation ends
\* with that read error and renders no record; at the end either the full
\* filtered record set was rendered or nothing was emitted.
C8_FailFastNothingEmitted ==
  pc = "done" =>
    /\ \A k \in DOMAIN reads :
         (IsContainerRead(reads[k]) /\ reads[k].res.err # "nil") =>
            /\ err = [kind |-> "read", value |-> reads[k].res.err]
            /\ Renderings = {}
    /\ \/ stdout = <<>>
       \/ /\ Renderings = {Len(stdout)}
          /\ Len(stdout[Len(stdout)].rows) = Len(result.Containers)
          /\ err.kind = "nil"

\* C9: the records kept, and the rows of any rendering, lie over the response
\* in increasing positions; a listing that ends without error has rendered
\* exactly once; with no name pattern and no pid option the rendering has one
\* row per summary, in response order; with a pattern that matches no
\* summary's name it has no row.
C9_ResponseOrder ==
  /\ Embeddings(result.Containers, r.Containers) # {}
  /\ \A k \in Renderings :
       /\ Embeddings(stdout[k].rows, r.Containers) # {}
       /\ Len(stdout[k].rows) = Len(result.Containers)
       /\ (opts.nameRegexp = <<>> /\ opts.pid = "") =>
            /\ Len(stdout[k].rows) = Len(r.Containers)
            /\ \A j \in DOMAIN stdout[k].rows : RowOf(stdout[k].rows[j], r.Containers[j])
       /\ (/\ opts.nameRegexp # <<>>
           /\ \A j \in DOMAIN r.Containers :
                ~MatchString(opts.nameRegexp, r.Containers[j].Metadata.Name)) =>
            stdout[k].rows = <<>>
  /\ (pc = "done" /\ err.kind = "nil") =>
       /\ Renderings = {Len(stdout)}
       /\ Len(stdout) >= 1

\* C9 witness: two summaries of different names, no filter, both rendered.
C9_Witness ==
  /\ pc = "done" /\ opts.nameRegexp = <<>> /\ opts.pid = ""
  /\ \E k \in Renderings :
       /\ Len(stdout[k].rows) = 2
       /\ stdout[k].rows[1].Name = Db /\ stdout[k].rows[2].Name = Web

\* The last pass of the loop read both files of its container.
LastPassRead == Len(reads) >= 3 /\ IsStateReadOk(reads[Len(reads)])
LastConfigDoc == reads[Len(reads) - 1].res.doc
LastStateDoc  == reads[Len(reads)].res.doc

\* The value under the key is absent, or is neither a string nor (for the
\* pid) a number.
MissingOrWrongType(doc, key) ==
  \/ key \notin DOMAIN doc
  \/ doc[key].Type \notin (IF key = PidKey THEN {"String", "Number"} ELSE {"String"})

\* C10 (as stated): after a pass that read both files, each consumed field
\* that is missing or of the wrong type is the empty string in the record.
C10_MissingOrWrongTypeIsEmpty ==
  (LastPassRead /\ opts.pid = "") =>
    LET rec == result.Containers[Len(result.Containers)]
    IN  /\ MissingOrWrongType(LastConfigDoc, RootPathKey) => rec.MountPoint = ""
        /\ MissingOrWrongType(LastStateDoc, PidKey) => rec.PID = ""
        /\ MissingOrWrongType(LastStateDoc, IPKey) => rec.IP = ""

\* C10 (amended): a pass that read both files never fails the listing,
\* whatever the fields hold. A missing field is the empty string in the
\* record and a field of another type is that value's JSON text. Without a
\* pid option every such pass adds its record, so a listing that ends without
\* error has one record per summary that passes the name filter; with a pid
\* option the record is kept exactly when the field's text equals the option.
C10_AbsentFieldsTolerated ==
  LastPassRead =>
    LET n == Len(result.Containers)
        okReads == Cardinality({k \in DOMAIN reads : IsStateReadOk(reads[k])})
    IN  /\ err.kind # "read"
        /\ opts.pid = "" =>
             /\ n = okReads
             /\ result.Containers[n].MountPoint = Text(LastConfigDoc, RootPathKey)
             /\ result.Containers[n].PID = Text(LastStateDoc, PidKey)
             /\ result.Containers[n].IP = Text(LastStateDoc, IPKey)
             /\ RootPathKey \notin DOMAIN LastConfigDoc => result.Containers[n].MountPoint = ""
             /\ PidKey \notin DOMAIN LastStateDoc => result.Containers[n].PID = ""
             /\ IPKey \notin DOMAIN LastStateDoc => result.Containers[n].IP = ""
             /\ (pc = "done" /\ err.kind = "nil") => n = NamePassing(Len(r.Containers))
        /\ opts.pid # "" =>
             n = IF Text(LastStateDoc, PidKey) = opts.pid THEN 1 ELSE 0

\* C10 witness: a listing ended without error whose first record has an empty
\* mount point (root.path absent) and whose second record was still added.
C10_Witness ==
  /\ pc = "done" /\ err.kind = "nil" /\ opts.pid = ""
  /\ Len(result.Containers) = 2
  /\ result.Containers[1].MountPoint = "" /\ result.Containers[1].PID = "7"
  /\ result.Containers[2].PID = "true"
  /\ Renderings # {}

\* The entries of STORAGE_OPTS end the driver options.
IsSuffix(t, u) ==
  /\ Len(t) <= Len(u)
  /\ \A k \in 1..Len(t) : u[Len(u) - Len(t) + k] = t[k]

DriverOverridden == storageOpts.GraphDriverName = environ.STORAGE_DRIVER
OptsAppended == IsSuffix(Split(environ.STORAGE_OPTS, ","), storageOpts.GraphDriverOptions)

\* The names the configuration asks to remap to, after mirroring a lone user
\* or group onto the other.
RemapNames ==
  IF configFile.kind = "ok"
  THEN {Field(configFile.storage, "RemapUser"), Field(configFile.storage, "RemapGroup")} \ {""}
  ELSE {}

\* The calls that get past reading, decoding and the remap lookup.
ReachesOverrides ==
  /\ configFile.kind \in {"notexist", "ok"}
  /\ RemapNames \subseteq environ.known

\* C11 as stated: on return from every call, whatever the configuration
\* file, a non-empty STORAGE_DRIVER is the driver name and the entries of a
\* non-empty STORAGE_OPTS are at the end of the driver options.
C11_OverridesOnEveryCall ==
  pc = "reloadret" =>
    /\ environ.STORAGE_DRIVER # "" => DriverOverridden
    /\ environ.STORAGE_OPTS # <<>> => OptsAppended

\* The environment with neither override set.
NoOverrides(env) == [env EXCEPT !.STORAGE_DRIVER = "", !.STORAGE_OPTS = <<>>]

\* C11 amended: a call on a missing file, or on a decoded file whose remap
\* user and group (if any) are known, applies both overrides; a call on an
\* unreadable or undecodable file returns the store options untouched, and a
\* call on a file with an unknown remap user or group returns them as it
\* does when neither variable is set, after printing the failure.
C11_OverridesWhenReached ==
  [][ReloadCall =>
       IF ReachesOverrides
       THEN /\ environ.STORAGE_DRIVER # "" =>
                 storageOpts'.GraphDriverName = environ.STORAGE_DRIVER
            /\ environ.STORAGE_OPTS # <<>> =>
                 IsSuffix(Split(environ.STORAGE_OPTS, ","), storageOpts'.GraphDriverOptions)
       ELSE /\ configFile.kind \in {"unreadable", "unparsable"} => storageOpts' = storageOpts
            /\ storageOpts' =
                 ReloadConfigurationFile(configFile, NoOverrides(environ), storageOpts).so
            /\ Len(stdout') = Len(stdout) + 1]_vars

\* Both overrides were set and applied to a decoded file that itself names a
\* driver and options.
C11_Witness ==
  /\ pc = "reloadret"
  /\ configFile.kind = "ok"
  /\ Field(configFile.storage, "Driver") = "devicemapper"
  /\ environ.STORAGE_DRIVER = "vfs"
  /\ Len(environ.STORAGE_OPTS) = 3
  /\ storageOpts.GraphDriverName = "vfs"
  /\ Len(storageOpts.GraphDriverOptions) > 2
  /\ OptsAppended

\* The records a command printed: the rows of its rendering, none when it
\* printed no rendering.
RenderedRows(out) ==
  LET ks == {k \in DOMAIN out : out[k].kind # "line"}
  IN  IF ks = {} THEN <<>> ELSE out[CHOOSE k \in ks : TRUE].rows

\* A container of the response as a record: it carries the identifier, the
\* creation time, the state and the name, and none of the storage fields.
ResponseRecord(c) ==
  [ContainerId |-> c.Id, CTM |-> [duration |-> c.CreatedAt, suffix |-> ""],
   State |-> c.State, Name |-> c.Metadata.Name, PID |-> "", IP |-> "", MountPoint |-> ""]

HcRecords == RenderedRows(stdout)

PidRecords ==
  LET rows == RenderedRows(pids.stdout)
  IN  IF opts.output \in {"json", "yaml"}
      THEN [k \in DOMAIN rows |-> ResponseRecord(rows[k])]
      ELSE rows

\* Both commands have ended, and both without an error.
BothEnded == pc \in {"done", "fatal"} /\ pids.pc \in {"done", "fatal"}
BothListed == pc = "done" /\ pids.pc = "done" /\ err = NoErr /\ pids.err = NoErr

\* C12 as stated: on the same options, the same answer of the runtime and
\* the same storage files, the two commands have sent the same requests
\* once both have ended, and where both ended without an error they have
\* printed the same sequence of records.
C12_ListingsEquivalent ==
  /\ BothEnded =>
       [k \in DOMAIN pids.sent |-> pids.sent[k].request]
         = [k \in DOMAIN sent |-> sent[k].request]
  /\ BothListed => PidRecords = HcRecords

====
